---- MODULE Spec2Model ----
(***************************************************************************)
(* The execute_js command of tauri-plugin-mcp-bridge                       *)
(* (packages/tauri-plugin-mcp-bridge/src/commands/execute_js.rs).          *)
(*                                                                         *)
(* Every call of execute_js is a process that walks through the function   *)
(* body; the points where other threads can interleave are the awaits and  *)
(* the calls into the window (listen, eval, unlisten).  The registry       *)
(* (state.pending_results) is a tokio Mutex around a HashMap: every guard  *)
(* is held over straight-line code with no await inside, so each critical  *)
(* section is one step of the model.  The webview and whatever emits on    *)
(* "__script_result" are the environment.                                  *)
(***************************************************************************)
EXTENDS Integers, Sequences, FiniteSets, Bags, TLC

\* Number of execute_js calls made during a run.
NumCalls == 2
\* Number of "__script_result" events during a run that a listener accepts
\* (events no listener accepts are not limited).
MaxAccepted == 2

\* Longest script, in tokens, given to prepare_script.
MaxScriptLen == 3

Calls == 1 .. NumCalls

(***************************************************************************)
(* serde_json::Value.  A value is a record [k, v]; Absent stands for a key *)
(* that is not in the map (Map::get returns None).                         *)
(***************************************************************************)
Absent == [k |-> "absent", v |-> "absent"]
JNull == [k |-> "null", v |-> "null"]
JBool(b) == [k |-> "bool", v |-> IF b THEN "true" ELSE "false"]
JStr(s) == [k |-> "string", v |-> s]
JNum == [k |-> "number", v |-> "42"]

\* Value::as_bool: Some(b) for a boolean, None (here Absent) otherwise.
as_bool(x) == IF x.k = "bool" THEN x ELSE Absent
\* Value::as_str: Some(s) for a string, None (here Absent) otherwise.
as_str(x) == IF x.k = "string" THEN x ELSE Absent
\* Option::unwrap_or
unwrap_or(x, d) == IF x = Absent THEN d ELSE x

(***************************************************************************)
(* Uuid::new_v4().to_string(): a fresh string per call, different from     *)
(* every other one.  ForeignId is a string no call ever generated.         *)
(***************************************************************************)
UuidPool == <<"uuid-1", "uuid-2", "uuid-3", "uuid-4", "uuid-5">>
new_v4(c) == UuidPool[c]
ForeignId == "uuid-foreign"
CallOf(tok) == CHOOSE c \in Calls : new_v4(c) = tok

(***************************************************************************)
(* The JSON objects execute_js returns.  A key the object does not have is *)
(* Absent.  NoEnvelope: nothing yet.                                       *)
(***************************************************************************)
NoEnvelope == [success |-> Absent, data |-> Absent, error |-> Absent]
SuccessEnvelope(d) == [success |-> JBool(TRUE), data |-> d, error |-> Absent]
FailureEnvelope(e) == [success |-> JBool(FALSE), data |-> Absent, error |-> e]
InjectionFailedEnvelope == FailureEnvelope(JStr("Failed to execute script: e"))
ChannelClosedEnvelope == FailureEnvelope(JStr("Script execution failed: channel closed"))
TimeoutEnvelope == FailureEnvelope(JStr("Script execution timeout"))

(***************************************************************************)
(* event.payload(): either text serde_json cannot parse into a map, or a   *)
(* map with any of the keys exec_id, success, data, error.                 *)
(***************************************************************************)
Payload(id, s, d, e) ==
    [parsed |-> TRUE, exec_id |-> id, success |-> s, data |-> d, error |-> e]
Unparsable ==
    [parsed |-> FALSE, exec_id |-> Absent, success |-> Absent, data |-> Absent, error |-> Absent]

\* What __sendResult(true, value, null) emits (lines 114-119, 139), and a map
\* that holds nothing but the exec_id.
PayloadsWith(id) ==
    { Payload(id, JBool(TRUE), JNum, JNull),
      Payload(id, Absent, Absent, Absent) }

\* A variant that takes any success value other than false or null for true.
BuildEnvelopeTruthy(payload) ==
    IF payload.success \notin {Absent, JNull, JBool(FALSE)}
    THEN SuccessEnvelope(unwrap_or(payload.data, JNull))
    ELSE FailureEnvelope(unwrap_or(as_str(payload.error), JStr("Unknown error")))

\* The envelope the completion task builds from the payload.
BuildEnvelope(payload) ==
    IF unwrap_or(as_bool(payload.success), JBool(FALSE)) = JBool(TRUE)
    THEN SuccessEnvelope(unwrap_or(payload.data, JNull))
    ELSE FailureEnvelope(unwrap_or(as_str(payload.error), JStr("Unknown error")))

(***************************************************************************)
(* HashMap<String, oneshot::Sender<Value>>: a function from the tokens     *)
(* present to the call whose channel the sender belongs to.                *)
(***************************************************************************)
NoSender == 0
EmptyMap == [x \in {} |-> NoSender]
MapInsert(m, key, val) ==
    [x \in DOMAIN m \cup {key} |-> IF x = key THEN val ELSE m[x]]
MapGet(m, key) == IF key \in DOMAIN m THEN m[key] ELSE NoSender
\* Mutants of remove: a lookup that leaves the entry, and a clear of the map.
MapRemoveKeeps(m, key) == m
MapRemoveClears(m, key) == EmptyMap
MapRemove(m, key) == [x \in DOMAIN m \ {key} |-> m[x]]

VARIABLES
    pc,           \* where each call is in execute_js
    pending,      \* state.pending_results
    listeners,    \* the "__script_result" listeners of the window, by bound exec_id
    chan,         \* each call's oneshot channel
    eval_result,  \* what window.eval returned to each call
    result,       \* the value each call returns
    tasks,        \* spawned completion tasks that have not run yet
    accepted,     \* number of "__script_result" events a listener accepted so far
    removals,     \* history: who removed each call's entry from the registry
    origin,       \* history: the exec_id of the payload a call's envelope was built from
    stale,        \* history: a completion task of the call found no entry
    malformed,    \* history: an event without a usable exec_id was delivered
    pure          \* the function checked on its own, with its input and output

\* prepare_script, the envelope construction and the wrapped script are each
\* checked in a specification of their own, where pure holds the function's
\* input and output; these are the fields.
script == pure.script
prepared == pure.prepared
payload_in == pure.payload_in
built == pure.built
wrapper == pure.wrapper

bridge == <<pc, pending, listeners, chan, eval_result, result, tasks, accepted,
            removals, origin, stale, malformed>>

vars == <<pc, pending, listeners, chan, eval_result, result, tasks, accepted,
          removals, origin, stale, malformed, pure>>

OpenChannel == [val |-> NoEnvelope, tx |-> "held", rx |-> "live"]

NotPrepared == [done |-> FALSE, text |-> <<>>]
NotBuilt == [done |-> FALSE, envelope |-> NoEnvelope]

\* No function is under check.
Idle == "idle"

BridgeInit ==
    /\ pc = [c \in Calls |-> "init"]
    /\ pending = EmptyMap
    /\ listeners = {}
    /\ chan = [c \in Calls |-> OpenChannel]
    /\ eval_result = [c \in Calls |-> "none"]
    /\ result = [c \in Calls |-> NoEnvelope]
    /\ tasks = EmptyBag
    /\ accepted = 0
    /\ removals = [c \in Calls |-> <<>>]
    /\ origin = [c \in Calls |-> Absent]
    /\ stale = [c \in Calls |-> FALSE]
    /\ malformed = FALSE

Init == BridgeInit /\ pure = Idle

\* Lines 42-51: the exec_id, the channel, and the sender stored under the lock.
Register(c) ==
    /\ pc[c] = "init"
    /\ pending' = MapInsert(pending, new_v4(c), c)
    /\ chan' = [chan EXCEPT ![c] = OpenChannel]
    /\ pc' = [pc EXCEPT ![c] = "registered"]
    /\ UNCHANGED pure
    /\ UNCHANGED <<listeners, eval_result, result, tasks, accepted, removals, origin, stale, malformed>>

\* Lines 54-100: window.listen("__script_result", closure over exec_id_clone).
Listen(c) ==
    /\ pc[c] = "registered"
    /\ listeners' = listeners \cup {new_v4(c)}
    /\ pc' = [pc EXCEPT ![c] = "listening"]
    /\ UNCHANGED pure
    /\ UNCHANGED <<pending, chan, eval_result, result, tasks, accepted, removals, origin, stale, malformed>>

\* Lines 60-63: the callback parses the payload and goes on only for a string
\* exec_id equal to the exec_id it was created with.
\* Mutants of the callback's filter: no comparison with the bound exec_id, and
\* a missing exec_id taken for a match.
ListenerSpawnsAny(l, p) == p.parsed /\ p.exec_id.k = "string"
ListenerSpawnsLoose(l, p) == p.parsed /\ (p.exec_id = Absent \/ p.exec_id = JStr(l))
ListenerSpawns(l, p) ==
    /\ p.parsed
    /\ p.exec_id.k = "string"
    /\ p.exec_id.v = l

\* A variant that injects the script before the listener is subscribed.
EvalOkBeforeListen(c) ==
    /\ pc[c] = "registered"
    /\ eval_result' = [eval_result EXCEPT ![c] = "Ok"]
    /\ pc' = [pc EXCEPT ![c] = "waiting"]
    /\ UNCHANGED pure
    /\ UNCHANGED <<pending, listeners, chan, result, tasks, accepted, removals, origin, stale, malformed>>

\* Lines 102-152, window.eval returned Ok: the wrapped script, which holds the
\* exec_id, is now in the webview.
EvalOk(c) ==
    /\ pc[c] = "listening"
    /\ eval_result' = [eval_result EXCEPT ![c] = "Ok"]
    /\ pc' = [pc EXCEPT ![c] = "waiting"]
    /\ UNCHANGED pure
    /\ UNCHANGED <<pending, listeners, chan, result, tasks, accepted, removals, origin, stale, malformed>>

\* Line 152, window.eval returned Err.
EvalErr(c) ==
    /\ pc[c] = "listening"
    /\ eval_result' = [eval_result EXCEPT ![c] = "Err"]
    /\ pc' = [pc EXCEPT ![c] = "eval_failed"]
    /\ UNCHANGED pure
    /\ UNCHANGED <<pending, listeners, chan, result, tasks, accepted, removals, origin, stale, malformed>>

\* A sender removed from the map and not sent on is dropped.
DropSender(m, key, ch) ==
    IF MapGet(m, key) = NoSender THEN ch
    ELSE [ch EXCEPT ![MapGet(m, key)].tx = "dropped"]

\* The history of successful removals: HashMap::remove returned Some.
LogRemoval(m, key, log, who) ==
    IF MapGet(m, key) = NoSender THEN log
    ELSE [log EXCEPT ![CallOf(key)] = Append(@, who)]

\* Mutant of the injection-failure path: the return is missing and the call
\* goes on to wait.
InjectionFailureFallsThrough(c) ==
    /\ pc[c] = "eval_failed"
    /\ pending' = MapRemove(pending, new_v4(c))
    /\ chan' = DropSender(pending, new_v4(c), chan)
    /\ removals' = LogRemoval(pending, new_v4(c), removals, "injection_failure")
    /\ pc' = [pc EXCEPT ![c] = "waiting"]
    /\ UNCHANGED pure
    /\ UNCHANGED <<listeners, eval_result, result, tasks, accepted, origin, stale, malformed>>

\* Lines 153-160: remove the entry under the lock and return the failure.
\* The function returns here: rx is dropped, window.unlisten is not reached.
InjectionFailureCleanup(c) ==
    /\ pc[c] = "eval_failed"
    /\ pending' = MapRemove(pending, new_v4(c))
    /\ chan' = [DropSender(pending, new_v4(c), chan) EXCEPT ![c].rx = "dropped"]
    /\ removals' = LogRemoval(pending, new_v4(c), removals, "injection_failure")
    /\ result' = [result EXCEPT ![c] = InjectionFailedEnvelope]
    /\ pc' = [pc EXCEPT ![c] = "done"]
    /\ UNCHANGED pure
    /\ UNCHANGED <<listeners, eval_result, tasks, accepted, origin, stale, malformed>>

\* oneshot::Receiver polled: ready with the value sent, or with RecvError once
\* the sender is gone without having sent.
Ready(ch) == ch.val # NoEnvelope \/ ch.tx = "dropped"

\* Lines 165-172: the arms Ok(Ok(result)) and Ok(Err(_)) of the match.
RecvOutcome(ch) == IF ch.val # NoEnvelope THEN ch.val ELSE ChannelClosedEnvelope

\* Line 164: tokio::time::timeout polls rx first and the timer only when rx is
\* not ready.
\* Mutants: rx awaited without a timer, and a timer that can fire although
\* rx is ready.
TimerNeverFires(ch) == FALSE
TimerFiresAnyway(ch) == TRUE
TimerFires(ch) == ~Ready(ch)

\* Lines 164-172: rx completed before the timer.
Receive(c) ==
    /\ pc[c] = "waiting"
    /\ Ready(chan[c])
    /\ result' = [result EXCEPT ![c] = RecvOutcome(chan[c])]
    /\ chan' = [chan EXCEPT ![c].val = NoEnvelope, ![c].rx = "dropped"]
    /\ pc' = [pc EXCEPT ![c] = "unlisten"]
    /\ UNCHANGED pure
    /\ UNCHANGED <<pending, listeners, eval_result, tasks, accepted, removals, origin, stale, malformed>>

\* Line 164 gives Err(Elapsed): the timeout future, and rx in it, is dropped;
\* the call goes on to take the lock at line 175.
TimeoutElapsed(c) ==
    /\ pc[c] = "waiting"
    /\ TimerFires(chan[c])
    /\ chan' = [chan EXCEPT ![c].rx = "dropped"]
    /\ pc' = [pc EXCEPT ![c] = "elapsed"]
    /\ UNCHANGED pure
    /\ UNCHANGED <<pending, listeners, eval_result, result, tasks, accepted, removals, origin, stale, malformed>>

\* Mutant of the timeout arm: the entry is left in the registry.
TimeoutCleanupKeepsEntry(c) ==
    /\ pc[c] = "elapsed"
    /\ result' = [result EXCEPT ![c] = TimeoutEnvelope]
    /\ pc' = [pc EXCEPT ![c] = "unlisten"]
    /\ UNCHANGED pure
    /\ UNCHANGED <<pending, chan, removals, listeners, eval_result, tasks, accepted, origin,
                   stale, malformed>>

\* Lines 173-182: remove the entry under the lock, the timeout failure.
TimeoutCleanup(c) ==
    /\ pc[c] = "elapsed"
    /\ pending' = MapRemove(pending, new_v4(c))
    /\ chan' = DropSender(pending, new_v4(c), chan)
    /\ removals' = LogRemoval(pending, new_v4(c), removals, "timeout")
    /\ result' = [result EXCEPT ![c] = TimeoutEnvelope]
    /\ pc' = [pc EXCEPT ![c] = "unlisten"]
    /\ UNCHANGED pure
    /\ UNCHANGED <<listeners, eval_result, tasks, accepted, origin, stale, malformed>>

\* Lines 185-188: window.unlisten(unlisten), then the function returns result.
Unlisten(c) ==
    /\ pc[c] = "unlisten"
    /\ listeners' = listeners \ {new_v4(c)}
    /\ pc' = [pc EXCEPT ![c] = "done"]
    /\ UNCHANGED pure
    /\ UNCHANGED <<pending, chan, eval_result, result, tasks, accepted, removals, origin, stale, malformed>>

(***************************************************************************)
(* The environment: an event on "__script_result".  An exec_id leaves the  *)
(* process only inside the wrapped script (line 115), so an event carries  *)
(* a call's exec_id only once window.eval took that call's script.         *)
(***************************************************************************)
Injected == {c \in Calls : eval_result[c] = "Ok"}

EventPayloads ==
    {Unparsable}
        \cup {Payload(id, JBool(TRUE), JNum, JNull) : id \in {Absent, JNum, JStr(ForeignId)}}
        \cup UNION {PayloadsWith(JStr(new_v4(c))) : c \in Injected}

\* The payloads the callback gives up on before comparing: the Err arm of the
\* parse (line 96) and an exec_id that is missing or no string (line 62).
Malformed(p) == ~p.parsed \/ p.exec_id.k # "string"

\* Lines 57-100: the window calls every listener's callback with the event;
\* a callback that finds its exec_id spawns the completion task (line 69).
Spawned(p) == {[tok |-> l, payload |-> p] : l \in {x \in listeners : ListenerSpawns(x, p)}}

Notify(p) ==
    /\ UNCHANGED <<pc, pending, listeners, chan, eval_result, result, removals, origin, stale>>
    /\ UNCHANGED pure
    /\ malformed' = (malformed \/ Malformed(p))
    /\ LET spawned == Spawned(p) IN
        /\ spawned # {} => accepted < MaxAccepted
        /\ accepted' = IF spawned # {} THEN accepted + 1 ELSE accepted
        /\ tasks' = tasks (+) SetToBag(spawned)
    /\ p \in EventPayloads

\* A variant that drops the sender without sending.
SendDropped(ch, v) == [ch EXCEPT !.tx = "dropped"]

\* oneshot::Sender::send: the value reaches the channel unless rx is gone,
\* in which case send returns Err, which line 90 ignores.
Send(ch, v) ==
    IF ch.rx = "live" THEN [ch EXCEPT !.val = v, !.tx = "sent"]
    ELSE [ch EXCEPT !.tx = "sent"]

\* Lines 69-92: the spawned task takes the lock, removes the entry and, if
\* there was one, sends the envelope built from the payload.
RunTask(t) ==
    LET sender == MapGet(pending, t.tok) IN
    /\ UNCHANGED <<pc, listeners, eval_result, result, accepted, malformed>>
    /\ UNCHANGED pure
    /\ BagIn(t, tasks)
    /\ tasks' = tasks (-) SetToBag({t})
    /\ pending' = MapRemove(pending, t.tok)
    /\ removals' = LogRemoval(pending, t.tok, removals, "task")
    /\ IF sender # NoSender
       THEN /\ chan' = [chan EXCEPT ![sender] = Send(@, BuildEnvelope(t.payload))]
            /\ origin' = [origin EXCEPT ![sender] =
                            IF chan[sender].rx = "live" THEN t.payload.exec_id ELSE @]
       ELSE UNCHANGED <<chan, origin>>
    /\ stale' = [c \in Calls |-> stale[c] \/ (sender = NoSender /\ t.tok = new_v4(c))]

CallStep(c) ==
    \/ Register(c)
    \/ Listen(c)
    \/ EvalOk(c)
    \/ EvalErr(c)
    \/ InjectionFailureCleanup(c)
    \/ Receive(c)
    \/ TimeoutElapsed(c)
    \/ TimeoutCleanup(c)
    \/ Unlisten(c)

Next ==
    \/ \E c \in Calls : CallStep(c)
    \/ \E p \in EventPayloads : Notify(p)
    \/ \E t \in BagToSet(tasks) : RunTask(t)

Spec == Init /\ [][Next]_vars

(***************************************************************************)
(* Scheduling.  A call that has started runs on: the tokio runtime polls   *)
(* it again whenever the lock, the channel or the timer wakes it, and the  *)
(* timer of line 164 fires.  A spawned task is polled until it ends.       *)
(* Nothing makes a caller call, or the webview emit.                       *)
(***************************************************************************)
CallProgress(c) ==
    \/ Listen(c)
    \/ EvalOk(c)
    \/ EvalErr(c)
    \/ InjectionFailureCleanup(c)
    \/ Receive(c)
    \/ TimeoutElapsed(c)
    \/ TimeoutCleanup(c)
    \/ Unlisten(c)

FairSpec ==
    /\ Spec
    /\ \A c \in Calls : WF_vars(CallProgress(c))
    /\ WF_vars(\E t \in BagToSet(tasks) : RunTask(t))

(***************************************************************************)
(* prepare_script (lines 191-232).  A script is a sequence of tokens, each *)
(* standing for its own text: the words and marks the function looks for,  *)
(* the two kinds of white space, and "x" for any other character (a letter *)
(* or a digit).  A prefix or suffix test on the text is the same test on   *)
(* the tokens, because no token's text is part of another's.               *)
(***************************************************************************)
Keywords == {"const", "let", "var", "if", "for", "while", "function", "class", "try"}
Spaces == {" ", "\n"}
Marks == {";", "(", ")", "{", "["}
Tokens == Keywords \cup {"return", "await", "JSON.", "x"} \cup Spaces \cup Marks

Scripts == UNION {[1 .. n -> Tokens] : n \in 0 .. MaxScriptLen}

\* str::starts_with, str::ends_with, str::contains on one character.
starts_with(s, p) == Len(s) >= Len(p) /\ SubSeq(s, 1, Len(p)) = p
ends_with(s, p) == Len(s) >= Len(p) /\ SubSeq(s, Len(s) - Len(p) + 1, Len(s)) = p
contains(s, ch) == \E i \in 1 .. Len(s) : s[i] = ch

\* str::trim: drops the white space at both ends.
trim(s) ==
    LET Inner == {i \in 1 .. Len(s) : s[i] \notin Spaces} IN
    IF Inner = {} THEN <<>>
    ELSE SubSeq(s, CHOOSE i \in Inner : \A j \in Inner : i <= j,
                   CHOOSE i \in Inner : \A j \in Inner : i >= j)

\* Lines 197-201: a semicolon that is not the last character.
has_real_semicolons(trimmed) ==
    IF ends_with(trimmed, <<";">>)
    THEN contains(SubSeq(trimmed, 1, Len(trimmed) - 1), ";")
    ELSE contains(trimmed, ";")

\* Lines 203-212.
is_multi_statement(trimmed) ==
    \/ has_real_semicolons(trimmed)
    \/ \E kw \in Keywords : starts_with(trimmed, <<kw, " ">>)

\* Lines 215-220.
is_single_expression(trimmed) ==
    \/ starts_with(trimmed, <<"await", " ">>)
    \/ starts_with(trimmed, <<"(">>)
    \/ starts_with(trimmed, <<"JSON.">>)
    \/ starts_with(trimmed, <<"{">>)
    \/ starts_with(trimmed, <<"[">>)
    \/ ends_with(trimmed, <<")", "(", ")">>)

\* Lines 222-225.
is_wrapped_expression(trimmed) ==
    \/ starts_with(trimmed, <<"(">>) /\ ends_with(trimmed, <<")">>)
    \/ starts_with(trimmed, <<"(">>) /\ ends_with(trimmed, <<")", "(", ")">>)
    \/ starts_with(trimmed, <<"JSON.">>) /\ ends_with(trimmed, <<")">>)
    \/ starts_with(trimmed, <<"await", " ">>)

prepare_script(s) ==
    LET trimmed == trim(s)
        needs_return == ~starts_with(trimmed, <<"return", " ">>)
    IN  IF needs_return /\ (\/ is_single_expression(trimmed)
                            \/ is_wrapped_expression(trimmed)
                            \/ ~is_multi_statement(trimmed))
        THEN <<"return", " ">> \o trimmed
        ELSE s

PrepareInit ==
    /\ BridgeInit
    /\ pure \in {[script |-> s, prepared |-> NotPrepared] : s \in Scripts}

Prepare ==
    /\ ~prepared.done
    /\ pure' = [pure EXCEPT !.prepared = [done |-> TRUE, text |-> prepare_script(script)]]
    /\ UNCHANGED bridge

PrepareNext == Prepare

PrepareSpec == PrepareInit /\ [][PrepareNext]_vars

(***************************************************************************)
(* Envelope construction (lines 72-88) on its own: the payload of a        *)
(* matching event holds any JSON value, or nothing, under each of success, *)
(* data and error.                                                         *)
(***************************************************************************)
SuccessValues == {Absent, JNull, JBool(TRUE), JBool(FALSE), JStr("true"), JNum}
DataValues == {Absent, JNull, JNum, JStr("text")}
ErrorValues == {Absent, JNull, JStr("boom"), JNum}

MatchingPayloads ==
    {Payload(JStr(new_v4(1)), s, d, e) :
        s \in SuccessValues, d \in DataValues, e \in ErrorValues}

BuildInit ==
    /\ BridgeInit
    /\ pure \in {[payload_in |-> p, built |-> NotBuilt] : p \in MatchingPayloads}

Build ==
    /\ ~built.done
    /\ pure' = [pure EXCEPT !.built = [done |-> TRUE, envelope |-> BuildEnvelope(payload_in)]]
    /\ UNCHANGED bridge

BuildNext == Build

BuildSpec == BuildInit /\ [][BuildNext]_vars

(***************************************************************************)
(* The wrapped script (lines 107-149), one run of it in the webview.  The  *)
(* snippet returns a value, returns nothing, throws (or rejects with) an   *)
(* Error, a string or null, or never settles; window.__TAURI__.event is    *)
(* there or not, and its emit may throw.                                   *)
(***************************************************************************)
JUndefined == [k |-> "undefined", v |-> "undefined"]
JError(msg) == [k |-> "error", v |-> msg]

Outcomes ==
    {[kind |-> "return", value |-> v] : v \in {JNum, JStr("text"), JNull, JUndefined}}
    \cup {[kind |-> "throw", value |-> v] : v \in {JError("boom"), JStr("oops"), JNull}}
    \cup {[kind |-> "never", value |-> JUndefined]}

\* Reading error.message of null throws this TypeError.
NullMessageError == JError("Cannot read properties of null (reading 'message')")

\* error.message || String(error), for a value that is not null.
MessageOf(error) == IF error.k = "error" THEN JStr(error.v) ELSE error

\* Lines 111-126: __sendResult(success, data, error).  The call is recorded;
\* the event is emitted when the bridge object is there and emit does not
\* throw; the try/catch around it lets nothing out.
sendResult(w, success, data, error) ==
    LET p == Payload(JStr(w.token), JBool(success), data, error) IN
    [w EXCEPT !.reports = Append(@, p),
              !.emitted = IF w.bridge /\ w.emit_ok THEN Append(@, p) ELSE @]

WrapperInit ==
    /\ BridgeInit
    /\ pure \in
         {[wrapper |->
             [pc |-> "start", token |-> new_v4(c), bridge |-> b, emit_ok |-> ok,
              outcome |-> o, caught |-> JUndefined, reports |-> <<>>, emitted |-> <<>>]] :
             c \in Calls, b \in BOOLEAN, ok \in BOOLEAN, o \in Outcomes}

\* Line 137: the async arrow calls __executeScript() and awaits it.
Execute ==
    /\ wrapper.pc = "start"
    /\ pure' = [wrapper |-> [wrapper EXCEPT !.pc = "awaiting"]]
    /\ UNCHANGED bridge

\* The awaited promise settles: on to line 139, or into the catch of line 140.
Settle ==
    /\ wrapper.pc = "awaiting"
    /\ wrapper.outcome.kind # "never"
    /\ pure' = [wrapper |-> IF wrapper.outcome.kind = "return"
                           THEN [wrapper EXCEPT !.pc = "try"]
                           ELSE [wrapper EXCEPT !.pc = "catch", !.caught = wrapper.outcome.value]]
    /\ UNCHANGED bridge

\* A variant whose __sendResult has no try/catch: a throwing emit lands in
\* the catch of line 140.
ReportSuccessUnguarded ==
    LET v == wrapper.outcome.value
        sent == sendResult(wrapper, TRUE, IF v # JUndefined THEN v ELSE JNull, JNull)
    IN
    /\ wrapper.pc = "try"
    /\ pure' = [wrapper |-> IF wrapper.bridge /\ ~wrapper.emit_ok
                           THEN [sent EXCEPT !.pc = "catch", !.caught = JError("emit failed")]
                           ELSE [sent EXCEPT !.pc = "settled"]]
    /\ UNCHANGED bridge

\* Line 139: __sendResult(true, __result !== undefined ? __result : null, null).
ReportSuccess ==
    LET v == wrapper.outcome.value IN
    /\ wrapper.pc = "try"
    /\ pure' = [wrapper |-> [sendResult(wrapper, TRUE, IF v # JUndefined THEN v ELSE JNull, JNull)
                              EXCEPT !.pc = "settled"]]
    /\ UNCHANGED bridge

\* Lines 140-142: __sendResult(false, null, error.message || String(error)).
\* Reading the message of null throws, and the async arrow rejects.
CatchReport ==
    /\ wrapper.pc = "catch"
    /\ pure' = [wrapper |-> IF wrapper.caught = JNull
                           THEN [wrapper EXCEPT !.pc = "rejected", !.caught = NullMessageError]
                           ELSE [sendResult(wrapper, FALSE, JNull, MessageOf(wrapper.caught))
                                   EXCEPT !.pc = "settled"]]
    /\ UNCHANGED bridge

\* Lines 143-146: the .catch handler on the outer invocation.
OuterCatch ==
    /\ wrapper.pc = "rejected"
    /\ pure' = [wrapper |-> [sendResult(wrapper, FALSE, JNull, MessageOf(wrapper.caught))
                              EXCEPT !.pc = "settled"]]
    /\ UNCHANGED bridge

WrapperNext ==
    \/ Execute
    \/ Settle
    \/ ReportSuccess
    \/ CatchReport
    \/ OuterCatch

WrapperSpec == WrapperInit /\ [][WrapperNext]_vars

----------------------------------------------------------------------------
\* The completion tasks of call c that have not run yet.
TasksFor(c) == {t \in BagToSet(tasks) : t.tok = new_v4(c)}
Registered(c) == new_v4(c) \in DOMAIN pending
Returned(c) == pc[c] = "done"

\* C1: a call whose script was injected returns one envelope, which never
\* changes afterwards, whatever the order of the matching event, its task and
\* the timeout; once it has returned and no task of it is left to run, the
\* registry has no entry for its exec_id.
C1_ExactlyOneEnvelope ==
    /\ [](\A c \in Calls :
            (Returned(c) /\ eval_result[c] = "Ok") =>
                /\ result[c] # NoEnvelope
                /\ (TasksFor(c) = {} => ~Registered(c)))
    /\ [][\A c \in Calls : result[c] # NoEnvelope => result'[c] = result[c]]_vars

\* The race of C1: the timer fired, the task of a matching event still took
\* the entry, and the call returned the timeout envelope.
C1_Witness ==
    \E c \in Calls :
        /\ Returned(c)
        /\ result[c] = TimeoutEnvelope
        /\ removals[c] = <<"task">>
        /\ TasksFor(c) = {}

\* C2: of all removers of one exec_id's entry (the completion tasks, the
\* timeout arm, the injection-failure path) at most one ever finds it, exactly
\* one has found it when the call has returned, and a remover that finds no
\* entry leaves the registry and the channels as they are.
C2_SingleRemoval ==
    /\ [](\A c \in Calls :
            /\ Len(removals[c]) <= 1
            /\ Returned(c) => Len(removals[c]) = 1)
    /\ [][/\ \A t \in BagToSet(tasks) :
                (RunTask(t) /\ t.tok \notin DOMAIN pending) =>
                    (pending' = pending /\ chan' = chan)
           /\ \A c \in Calls :
                (TimeoutCleanup(c) /\ ~Registered(c)) =>
                    (pending' = pending /\ chan' = chan)]_vars

\* Two removers raced for one entry: the task won, and both the timeout arm
\* and a second task found it gone.
C2_Witness ==
    \E c \in Calls :
        /\ Returned(c)
        /\ result[c] = TimeoutEnvelope
        /\ removals[c] = <<"task">>
        /\ stale[c]

\* C3: a call that has returned has unsubscribed its listener, so no listener
\* is subscribed when no call is in flight.
C3_UnlistenOnEveryPath ==
    /\ \A c \in Calls : Returned(c) => new_v4(c) \notin listeners
    /\ (\A c \in Calls : pc[c] \in {"init", "done"}) => listeners = {}

\* C4: every call that has started returns: from some point on no call is
\* between its start and its return.  (A call never goes back to "init" and
\* never leaves "done", so this is \A c : pc[c] # "init" ~> Returned(c).)
C4_EveryCallReturns ==
    <>[](\A c \in Calls : pc[c] \in {"init", "done"})

\* A call returned although no listener ever accepted an event.
C4_Witness ==
    \E c \in Calls : Returned(c) /\ eval_result[c] = "Ok" /\ accepted = 0

\* C5: an envelope delivered to a call through its channel was built from a
\* payload whose exec_id is the call's own.
C5_OwnResultOnly ==
    \A c \in Calls :
        (pc[c] \in {"unlisten", "done"} /\ origin[c] # Absent) =>
            /\ origin[c] = JStr(new_v4(c))
            /\ result[c] \in {BuildEnvelope(p) : p \in PayloadsWith(origin[c])}

\* Two calls in flight at once both got a delivered envelope, different ones.
C5_Witness ==
    /\ \A c \in Calls : Returned(c) /\ origin[c] = JStr(new_v4(c))
    /\ \E c, d \in Calls : result[c] # result[d]

\* C6: while a call waits with its entry in the registry, an event whose
\* exec_id is not the call's spawns no task for the call, and a task spawned
\* for such an event leaves the call waiting, its entry in place and its
\* channel empty.
C6_OtherTokenNeverResolves ==
    [][\A c \in Calls :
        (pc[c] = "waiting" /\ Registered(c)) =>
            /\ \A p \in EventPayloads :
                (Notify(p) /\ p.exec_id # JStr(new_v4(c))) =>
                    /\ \A t \in BagToSet(tasks') :
                        t.tok = new_v4(c) => CopiesIn(t, tasks') = CopiesIn(t, tasks)
                    /\ pc'[c] = "waiting" /\ Registered(c)' /\ chan'[c] = chan[c]
            /\ \A t \in BagToSet(tasks) :
                (RunTask(t) /\ t.payload.exec_id # JStr(new_v4(c))) =>
                    pc'[c] = "waiting" /\ Registered(c)' /\ chan'[c] = chan[c]]_vars

\* Another call's event was processed to the end, its task included, and this
\* call still waits with its entry in place.
C6_Witness ==
    \E c, d \in Calls :
        /\ c # d
        /\ pc[c] = "waiting" /\ Registered(c) /\ ~Ready(chan[c])
        /\ removals[d] = <<"task">>
        /\ tasks = EmptyBag

\* No listener ever accepted an event for call c: no task of c is waiting to
\* run and none has run (a task that ran either removed the entry or found
\* none).
NeverNotified(c) ==
    /\ TasksFor(c) = {}
    /\ ~stale[c]
    /\ "task" \notin {removals[c][i] : i \in DOMAIN removals[c]}

\* C7: a call whose script was injected and whose listener got no matching
\* event cannot receive, only time out; a call whose timer fired goes on to
\* the timeout envelope with its entry removed, whatever arrives afterwards;
\* and a call that returned without any matching event returned the timeout
\* envelope and has no entry in the registry.
C7_TimeoutWithoutNotification ==
    /\ [](\A c \in Calls :
            /\ (pc[c] = "waiting" /\ NeverNotified(c)) => ~Ready(chan[c])
            /\ (Returned(c) /\ eval_result[c] = "Ok" /\ NeverNotified(c)) =>
                    (result[c] = TimeoutEnvelope /\ ~Registered(c)))
    /\ [][\A c \in Calls :
            (pc[c] = "elapsed" /\ pc'[c] # "elapsed") =>
                /\ pc'[c] = "unlisten"
                /\ result'[c] = TimeoutEnvelope
                /\ ~Registered(c)']_vars

\* The script never reported: the call timed out and removed its entry itself.
C7_Witness ==
    \E c \in Calls :
        /\ Returned(c) /\ eval_result[c] = "Ok" /\ NeverNotified(c)
        /\ removals[c] = <<"timeout">>

\* C8: an event for an exec_id that has no entry any more, and the task it
\* spawns, change neither the registry nor any channel nor any call's result
\* or position.
C8_LateNotificationInert ==
    [][/\ \A t \in BagToSet(tasks) :
            (RunTask(t) /\ t.tok \notin DOMAIN pending) =>
                (pending' = pending /\ chan' = chan /\ result' = result /\ pc' = pc)
       /\ \A c \in Calls : \A p \in PayloadsWith(JStr(new_v4(c))) :
            (~Registered(c) /\ Notify(p)) =>
                (pending' = pending /\ chan' = chan /\ result' = result /\ pc' = pc)]_vars

\* A task ran for a call whose entry the timeout arm had already removed.
C8_Witness ==
    \E c \in Calls :
        /\ stale[c]
        /\ removals[c] = <<"timeout">>
        /\ result[c] = TimeoutEnvelope
        /\ TasksFor(c) = {}

\* C9: a call whose window.eval failed never waits, removes its own entry and
\* returns the injection-failure envelope.
C9_InjectionFailure ==
    /\ [](\A c \in Calls :
            (Returned(c) /\ eval_result[c] = "Err") =>
                /\ result[c] = InjectionFailedEnvelope
                /\ ~Registered(c)
                /\ removals[c] = <<"injection_failure">>)
    /\ [][\A c \in Calls :
            eval_result[c] = "Err" => pc'[c] \in {"eval_failed", "done"}]_vars

\* A call returned on the injection-failure path.
C9_Witness ==
    \E c \in Calls :
        Returned(c) /\ eval_result[c] = "Err" /\ result[c] = InjectionFailedEnvelope

\* A payload that lacks one of exec_id, success, data, error.
SchemaIncomplete(p) ==
    \/ ~p.parsed
    \/ Absent \in {p.exec_id, p.success, p.data, p.error}

\* C10 as claimed: an unparsable or schema-incomplete event resolves no entry
\* and puts no envelope on any channel.
C10_IncompleteNeverResolves ==
    [][\A t \in BagToSet(tasks) :
            (RunTask(t) /\ SchemaIncomplete(t.payload)) =>
                (pending' = pending /\ chan' = chan)]_vars

\* C10 as amended: an event that cannot be parsed, or whose exec_id is missing
\* or not a string, resolves no entry and gives no caller an envelope: no
\* completion task (the only code that resolves an entry from an event) ever
\* carries such a payload, and every envelope delivered was built from a
\* payload with a string exec_id.
C10_MalformedNeverResolves ==
    /\ \A t \in BagToSet(tasks) : ~Malformed(t.payload)
    /\ \A c \in Calls : origin[c] # Absent => origin[c].k = "string"

\* A malformed event was delivered while a call was waiting on its entry, and
\* nothing was spawned or resolved.
C10_Witness ==
    /\ malformed
    /\ tasks = EmptyBag
    /\ \E c \in Calls : pc[c] = "waiting" /\ Registered(c) /\ ~Ready(chan[c])
    /\ \A c \in Calls : removals[c] = <<>>

\* C11: the registry holds exactly the entries of the calls that registered
\* and whose entry nobody has removed yet (neither a completion task, nor the
\* timeout cleanup, nor the injection-failure cleanup), one entry per such
\* call, and it is empty whenever no call is in flight.
C11_RegistryCount ==
    LET Unresolved == {c \in Calls : pc[c] # "init" /\ removals[c] = <<>>} IN
    /\ DOMAIN pending = {new_v4(c) : c \in Unresolved}
    /\ Cardinality(DOMAIN pending) = Cardinality(Unresolved)
    /\ (\A c \in Calls : pc[c] \in {"init", "done"}) => pending = EmptyMap

\* Two calls registered, one entry was taken by a completion task and the
\* other call's entry is still there.
C11_Witness ==
    \E c, d \in Calls :
        /\ c # d
        /\ removals[c] = <<"task">>
        /\ pc[d] = "waiting"
        /\ Registered(d)
        /\ Cardinality(DOMAIN pending) = 1

\* The keys of a returned JSON object, and the value read under one key.
EnvelopeKeys(env) == {key \in {"success", "data", "error"} : env[key] # Absent}
EnvelopeGet(env, key) == IF key \in EnvelopeKeys(env) THEN env[key] ELSE Absent

\* C12: the JSON object execute_js returns always has the key success; when
\* the script succeeded it carries the script's value under the key result,
\* and when it failed it carries the message, a string, under the key error.
C12_DocumentedKeys ==
    \A c \in Calls : Returned(c) =>
        /\ EnvelopeGet(result[c], "success").k = "bool"
        /\ result[c].success = JBool(TRUE) =>
               EnvelopeGet(result[c], "result") # Absent
        /\ result[c].success = JBool(FALSE) =>
               EnvelopeGet(result[c], "error").k = "string"

\* The text starts with the keyword kw: the word itself, not a longer
\* identifier that begins with it.
StartsWithKeyword(text, kw) ==
    /\ Len(text) >= 1
    /\ text[1] = kw
    /\ Len(text) >= 2 => text[2] \in Spaces \cup Marks

\* C13: prepare_script returns the script unchanged when its trimmed text
\* starts with the return keyword, and when the trimmed text is classified
\* multi-statement and matches no single-expression pattern; in every other
\* case it returns "return " followed by the trimmed text.
C13_PrepareScript ==
    prepared.done =>
        LET trimmed == trim(script) IN
        prepared.text =
            IF \/ StartsWithKeyword(trimmed, "return")
               \/ is_multi_statement(trimmed) /\ ~is_single_expression(trimmed)
            THEN script
            ELSE <<"return", " ">> \o trimmed

C16_RegisterListenInject ==
    [][\A c \in Calls :
         /\ (Registered(c)' /\ ~Registered(c)) =>
                (new_v4(c) \notin listeners /\ eval_result[c] = "none")
         /\ (new_v4(c) \in listeners' /\ new_v4(c) \notin listeners) =>
                (Registered(c) /\ eval_result[c] = "none")
         /\ eval_result'[c] # eval_result[c] =>
                /\ Registered(c) /\ new_v4(c) \in listeners
                /\ Registered(c)' /\ new_v4(c) \in listeners']_vars

\* The script is in the webview, its event has arrived and was picked up by
\* the call's listener while the entry was still in the registry.
C16_Witness ==
    \E c \in Calls :
        /\ eval_result[c] = "Ok"
        /\ pc[c] = "waiting"
        /\ new_v4(c) \in listeners
        /\ Registered(c)
        /\ TasksFor(c) # {}

\* C17: no call returns the channel-closed envelope, and while a call waits
\* on its receiver the sender has not been dropped unsent: the completion
\* task sends on every sender it removes, and the two cleanups drop a sender
\* only when the call no longer waits.
C17_ChannelClosedUnreachable ==
    \A c \in Calls :
        /\ result[c] # ChannelClosedEnvelope
        /\ pc[c] = "waiting" => chan[c].tx # "dropped"

\* A completion task removed the sender, sent on it, and the call returned
\* what was sent.
C17_Witness ==
    \E c \in Calls :
        /\ Returned(c)
        /\ removals[c] = <<"task">>
        /\ chan[c].tx = "sent"
        /\ origin[c] = JStr(new_v4(c))
        /\ result[c] \notin {ChannelClosedEnvelope, TimeoutEnvelope}

\* A terminal step of call c: delivery (or channel closed), the cleanup
\* after a failed injection, the timeout and its cleanup, the unsubscription,
\* and the completion task that resolves c's entry.
TerminalStep(c) ==
    \/ Receive(c)
    \/ InjectionFailureCleanup(c)
    \/ TimeoutElapsed(c)
    \/ TimeoutCleanup(c)
    \/ Unlisten(c)
    \/ \E t \in TasksFor(c) : RunTask(t)

\* C18: a terminal step of one call leaves every other call's registry
\* entry, listener, channel, result and position as they were.
C18_TerminalStepFrame ==
    [][\A c \in Calls : TerminalStep(c) =>
         \A d \in Calls \ {c} :
            /\ Registered(d)' = Registered(d)
            /\ MapGet(pending, new_v4(d))' = MapGet(pending, new_v4(d))
            /\ (new_v4(d) \in listeners') = (new_v4(d) \in listeners)
            /\ chan'[d] = chan[d]
            /\ result'[d] = result[d]
            /\ pc'[d] = pc[d]]_vars

\* One call ended by timeout, cleanup and unsubscription while another was
\* and still is waiting, entry and listener in place.
C18_Witness ==
    \E c, d \in Calls :
        /\ c # d
        /\ Returned(c)
        /\ result[c] = TimeoutEnvelope
        /\ removals[c] = <<"timeout">>
        /\ pc[d] = "waiting"
        /\ Registered(d)
        /\ new_v4(d) \in listeners
        /\ chan[d] = OpenChannel

\* C19 as claimed: a call returns the timeout envelope only if its own
\* timeout cleanup removed the entry, and never when a completion task
\* removed the entry and sent.
C19_TimeoutOnlyOwnRemoval ==
    \A c \in Calls :
        (pc[c] \in {"unlisten", "done"} /\ eval_result[c] = "Ok") =>
            /\ result[c] = TimeoutEnvelope => removals[c] = <<"timeout">>
            /\ removals[c] = <<"task">> => result[c] # TimeoutEnvelope

\* C19 as amended: a call returns the timeout envelope exactly when nothing
\* was delivered into its channel before the timer fired; whoever then finds
\* the entry removes it, the timeout cleanup or a completion task that ran
\* in between, and what that task sends is lost.  An envelope sent by a
\* completion task while the call still waited is the one returned.
C19_TimeoutOnlyUndelivered ==
    \A c \in Calls :
        (pc[c] \in {"unlisten", "done"} /\ eval_result[c] = "Ok") =>
            /\ result[c] = TimeoutEnvelope <=> origin[c] = Absent
            /\ result[c] = TimeoutEnvelope =>
                   removals[c] \in {<<"timeout">>, <<"task">>}
            /\ origin[c] # Absent =>
                   /\ removals[c] = <<"task">>
                   /\ \E p \in PayloadsWith(origin[c]) : result[c] = BuildEnvelope(p)

\* The timer fired first, a completion task then took the entry and sent
\* into the abandoned channel, and the call returned the timeout envelope.
C19_Witness ==
    \E c \in Calls :
        /\ Returned(c)
        /\ result[c] = TimeoutEnvelope
        /\ removals[c] = <<"task">>
        /\ chan[c].tx = "sent"
        /\ chan[c].rx = "dropped"

\* C20: a script whose trimmed text starts with one of the keywords const,
\* let, var, if, for, while, function, class, try is returned unchanged,
\* never with "return " in front, whatever it ends with.
C20_KeywordScriptsUnchanged ==
    (prepared.done /\ \E kw \in Keywords : StartsWithKeyword(trim(script), kw)) =>
        prepared.text = script
====
